---- MODULE Spec2Model ----
(***************************************************************************)
(* Model of scripts/sign_firmware.py: the firmware signer (sign_firmware), *)
(* the key generator (generate_key) and the command-line entry point       *)
(* (main), run against a small file system.                                *)
(*                                                                         *)
(* Text (argv entries, paths, key strings) is a sequence of one-character  *)
(* strings; bytes objects are sequences of numbers in 0..255; SHA-256      *)
(* works on 32-bit words held as a pair <<hi, lo>> of 16-bit halves.       *)
(***************************************************************************)
EXTENDS Integers, Sequences, FiniteSets, TLC

\* ------------------------------------------------------------------------
\* Bounds of the model
\* ------------------------------------------------------------------------

\* number of runs of the program (process invocations) in one behaviour
MaxRuns == 2

\* number of runs in one behaviour of the specification of call sequences
MaxSeqRuns == 4

\* a failed flush leaves at most this many of the first bytes of the payload
\* in the file, or all but at most this many of the last bytes
MaxPartial == 1

\* the largest input file a run is started on, in bytes
MaxInputLen == 11

\* ------------------------------------------------------------------------
\* SHA-256 (FIPS 180-4), as hashlib.sha256 computes it
\* ------------------------------------------------------------------------

RECURSIVE BitXor(_, _, _)
\* bitwise xor of the low n bits of a and b
BitXor(a, b, n) ==
  IF n = 0 THEN 0
  ELSE ((a + b) % 2) + 2 * BitXor(a \div 2, b \div 2, n - 1)

RECURSIVE BitAnd(_, _, _)
\* bitwise and of the low n bits of a and b
BitAnd(a, b, n) ==
  IF n = 0 THEN 0
  ELSE ((a % 2) * (b % 2)) + 2 * BitAnd(a \div 2, b \div 2, n - 1)

WXor(x, y) == << BitXor(x[1], y[1], 16), BitXor(x[2], y[2], 16) >>

WAnd(x, y) == << BitAnd(x[1], y[1], 16), BitAnd(x[2], y[2], 16) >>

WNot(x) == << 65535 - x[1], 65535 - x[2] >>

\* addition modulo 2^32
WAdd(x, y) ==
  LET lo == x[2] + y[2]
      hi == x[1] + y[1] + (lo \div 65536)
  IN << hi % 65536, lo % 65536 >>

\* rotate right by n bits, 0 < n < 32
Rotr(x, n) ==
  LET s == IF n >= 16 THEN << x[2], x[1] >> ELSE x
      m == n % 16
  IN IF m = 0 THEN s
     ELSE << (s[1] \div (2 ^ m)) + (s[2] % (2 ^ m)) * (2 ^ (16 - m)),
             (s[2] \div (2 ^ m)) + (s[1] % (2 ^ m)) * (2 ^ (16 - m)) >>

\* shift right by n bits, 0 < n < 16
Shr(x, n) ==
  << x[1] \div (2 ^ n), (x[2] \div (2 ^ n)) + (x[1] % (2 ^ n)) * (2 ^ (16 - n)) >>

Ch(x, y, z) == WXor(WAnd(x, y), WAnd(WNot(x), z))

Maj(x, y, z) == WXor(WXor(WAnd(x, y), WAnd(x, z)), WAnd(y, z))

BigSigma0(x) == WXor(WXor(Rotr(x, 2), Rotr(x, 13)), Rotr(x, 22))

BigSigma1(x) == WXor(WXor(Rotr(x, 6), Rotr(x, 11)), Rotr(x, 25))

SmallSigma0(x) == WXor(WXor(Rotr(x, 7), Rotr(x, 18)), Shr(x, 3))

SmallSigma1(x) == WXor(WXor(Rotr(x, 17), Rotr(x, 19)), Shr(x, 10))

\* the 64 round constants
SHA256_K ==
  << <<17034, 12184>>, <<28983, 17553>>, <<46528, 64463>>, <<59829, 56229>>,
     <<14678, 49755>>, <<23025, 4593>>, <<37439, 33444>>, <<43804, 24277>>,
     <<55303, 43672>>, <<4739, 23297>>, <<9265, 34238>>, <<21772, 32195>>,
     <<29374, 23924>>, <<32990, 45566>>, <<39900, 1703>>, <<49563, 61812>>,
     <<58523, 27073>>, <<61374, 18310>>, <<4033, 40390>>, <<9228, 41420>>,
     <<11753, 11375>>, <<19060, 33962>>, <<23728, 43484>>, <<30457, 35034>>,
     <<38974, 20818>>, <<43057, 50797>>, <<45059, 10184>>, <<48985, 32711>>,
     <<50912, 3059>>, <<54695, 37191>>, <<1738, 25425>>, <<5161, 10599>>,
     <<10167, 2693>>, <<11803, 8504>>, <<19756, 28156>>, <<21304, 3347>>,
     <<25866, 29524>>, <<30314, 2747>>, <<33218, 51502>>, <<37490, 11397>>,
     <<41663, 59553>>, <<43034, 26187>>, <<49739, 35696>>, <<51052, 20899>>,
     <<53650, 59417>>, <<54937, 1572>>, <<62478, 13701>>, <<4202, 41072>>,
     <<6564, 49430>>, <<7735, 27656>>, <<10056, 30540>>, <<13488, 48309>>,
     <<14620, 3251>>, <<20184, 43594>>, <<23452, 51791>>, <<26670, 28659>>,
     <<29839, 33518>>, <<30885, 25455>>, <<33992, 30740>>, <<36039, 520>>,
     <<37054, 65530>>, <<42064, 27883>>, <<48889, 41975>>, <<50801, 30962>> >>

\* the initial hash value
SHA256_H0 ==
  << <<27145, 58983>>, <<47975, 44677>>, <<15470, 62322>>, <<42319, 62778>>,
     <<20750, 21119>>, <<39685, 26764>>, <<8067, 55723>>, <<23520, 52505>> >>

\* W[t] of the message schedule, from the words before it
ScheduleWord(w, t) ==
  WAdd(WAdd(SmallSigma1(w[t - 2]), w[t - 7]), WAdd(SmallSigma0(w[t - 15]), w[t - 16]))

RECURSIVE Schedule(_)
\* the message schedule W[1..64] of a block, grown from its 16 words
Schedule(w) ==
  IF Len(w) >= 64 THEN w
  ELSE Schedule(Append(w, ScheduleWord(w, Len(w) + 1)))

\* T1 and T2 of a round on the working variables s = <<a, b, c, d, e, f, g, h>>
Temp1(s, kt, wt) ==
  WAdd(WAdd(WAdd(s[8], BigSigma1(s[5])), Ch(s[5], s[6], s[7])), WAdd(kt, wt))

Temp2(s) == WAdd(BigSigma0(s[1]), Maj(s[1], s[2], s[3]))

\* the working variables after a round
Rotate(s, t1, t2) ==
  << WAdd(t1, t2), s[1], s[2], s[3], WAdd(s[4], t1), s[5], s[6], s[7] >>

RECURSIVE Rounds(_, _, _)
\* rounds t..64 on the working variables s (the test on Len(s) makes the
\* evaluator compute s before it goes on to the next round)
Rounds(s, w, t) ==
  IF t > 64 \/ Len(s) # 8 THEN s
  ELSE Rounds(Rotate(s, Temp1(s, SHA256_K[t], w[t]), Temp2(s)), w, t + 1)

\* the 16 big-endian words of a 64-byte block
BlockWords(b) ==
  SubSeq([i \in 1..16 |-> << b[4 * i - 3] * 256 + b[4 * i - 2],
                            b[4 * i - 1] * 256 + b[4 * i] >>], 1, 16)

\* the intermediate hash value plus the working variables, word by word
AddWords(h, s) ==
  << WAdd(h[1], s[1]), WAdd(h[2], s[2]), WAdd(h[3], s[3]), WAdd(h[4], s[4]),
     WAdd(h[5], s[5]), WAdd(h[6], s[6]), WAdd(h[7], s[7]), WAdd(h[8], s[8]) >>

Compress(h, block) == AddWords(h, Rounds(h, Schedule(BlockWords(block)), 1))

\* n zero bytes
Zeros(n) == SubSeq([i \in 1..n |-> 0], 1, n)

\* n copies of x
Rep(x, n) == SubSeq([i \in 1..n |-> x], 1, n)

\* the message length n (in bytes) as a bit count in 8 big-endian bytes
\* (messages here are far shorter than 2^28 bytes)
LenBytes(n) ==
  << 0, 0, 0, 0, ((8 * n) \div 16777216) % 256, ((8 * n) \div 65536) % 256,
     ((8 * n) \div 256) % 256, (8 * n) % 256 >>

\* padding: 0x80, zeros up to 56 mod 64, then the bit length
Pad(m) == m \o << 128 >> \o Zeros((119 - (Len(m) % 64)) % 64) \o LenBytes(Len(m))

RECURSIVE Blocks(_, _)
\* the compression function applied to each 64-byte block of m in turn
Blocks(h, m) ==
  IF Len(m) = 0 \/ Len(h) # 8 THEN h
  ELSE Blocks(Compress(h, SubSeq(m, 1, 64)), SubSeq(m, 65, Len(m)))

WordBytes(x) == << x[1] \div 256, x[1] % 256, x[2] \div 256, x[2] % 256 >>

\* the digest bytes of the final hash value
DigestBytes(h) ==
  WordBytes(h[1]) \o WordBytes(h[2]) \o WordBytes(h[3]) \o WordBytes(h[4]) \o
  WordBytes(h[5]) \o WordBytes(h[6]) \o WordBytes(h[7]) \o WordBytes(h[8])

\* hashlib.sha256(m).digest()
sha256(m) == DigestBytes(Blocks(SHA256_H0, Pad(m)))

\* ------------------------------------------------------------------------
\* HMAC (RFC 2104), as hmac.new(key, msg, hashlib.sha256).digest()
\* ------------------------------------------------------------------------

\* block size of SHA-256 in bytes
BlockSize == 64

\* length of a SHA-256 digest, the tag appended to the firmware
DigestSize == 32

\* every byte of s xor the byte c
XorBytes(s, c) == SubSeq([i \in 1..Len(s) |-> BitXor(s[i], c, 8)], 1, Len(s))

\* the key as one block: hashed when longer than a block, then zero-padded
BlockKey(hkey) ==
  IF Len(hkey) > BlockSize
  THEN sha256(hkey) \o Zeros(BlockSize - DigestSize)
  ELSE hkey \o Zeros(BlockSize - Len(hkey))

\* the outer hash over opad-key || inner hash over ipad-key || msg, the
\* whole of msg being one message
HmacOfBlockKey(bk, msg) == sha256(XorBytes(bk, 92) \o sha256(XorBytes(bk, 54) \o msg))

\* hmac.new(hkey, msg, hashlib.sha256).digest()
hmac_digest(hkey, msg) == HmacOfBlockKey(BlockKey(hkey), msg)

\* ------------------------------------------------------------------------
\* Text and hexadecimal (str, bytes.fromhex, bytes.hex)
\* ------------------------------------------------------------------------

HexLower == << "0", "1", "2", "3", "4", "5", "6", "7", "8", "9", "a", "b", "c", "d", "e", "f" >>

HexUpper == << "0", "1", "2", "3", "4", "5", "6", "7", "8", "9", "A", "B", "C", "D", "E", "F" >>

\* vertical tab (0x0b), written as the character itself
VT == ""

\* the characters bytes.fromhex skips: the six of ASCII white space
Whitespace == { " ", "\t", "\n", VT, "\f", "\r" }

IsHexDigit(c) == \E i \in 1..16 : HexLower[i] = c \/ HexUpper[i] = c

\* the value of a hexadecimal digit
DigitValue(c) == (CHOOSE i \in 1..16 : HexLower[i] = c \/ HexUpper[i] = c) - 1

\* a failed conversion (bytes.fromhex raised ValueError)
HexError == [ok |-> FALSE, bytes |-> << >>]

RECURSIVE FromHexScan(_, _, _)
\* the scan of bytes.fromhex from position i: white space between byte pairs
\* is skipped, every other character must open a pair of hex digits
FromHexScan(s, i, acc) ==
  IF i > Len(s) THEN [ok |-> TRUE, bytes |-> acc]
  ELSE IF s[i] \in Whitespace THEN FromHexScan(s, i + 1, acc)
  ELSE IF ~IsHexDigit(s[i]) THEN HexError
  ELSE IF i + 1 > Len(s) THEN HexError
  ELSE IF ~IsHexDigit(s[i + 1]) THEN HexError
  ELSE FromHexScan(s, i + 2, Append(acc, 16 * DigitValue(s[i]) + DigitValue(s[i + 1])))

\* bytes.fromhex(s)
fromhex(s) == FromHexScan(s, 1, << >>)

RECURSIVE hex(_)
\* bytes.hex(): two lowercase digits per byte
hex(b) ==
  IF Len(b) = 0 THEN << >>
  ELSE << HexLower[(Head(b) \div 16) + 1], HexLower[(Head(b) % 16) + 1] >> \o hex(Tail(b))

\* ------------------------------------------------------------------------
\* Paths (os.path.splitext) and the file system
\* ------------------------------------------------------------------------

\* str.rfind: the last position of character c in p, 0 when there is none
RFind(p, c) ==
  IF \E i \in 1..Len(p) : p[i] = c
  THEN CHOOSE i \in 1..Len(p) : p[i] = c /\ \A j \in (i + 1)..Len(p) : p[j] # c
  ELSE 0

\* os.path.splitext(p): <<base, ext>>; the extension starts at the last dot
\* of the last path component, unless that component has only leading dots
splitext(p) ==
  LET sepIndex == RFind(p, "/")
      dotIndex == RFind(p, ".")
  IN IF dotIndex > sepIndex
        /\ \E k \in (sepIndex + 1)..(dotIndex - 1) : p[k] # "."
     THEN << SubSeq(p, 1, dotIndex - 1), SubSeq(p, dotIndex, Len(p)) >>
     ELSE << p, << >> >>

Suffix == << "_", "s", "i", "g", "n", "e", "d" >>

\* the output path sign_firmware derives when none is given
DefaultOutputPath(p) == splitext(p)[1] \o Suffix \o splitext(p)[2]

\* Python's None and a present value, for the optional output path
None == << >>

Some(x) == << x >>

\* ------------------------------------------------------------------------
\* Inputs the environment presents
\* ------------------------------------------------------------------------

Prog == << "s", "i", "g", "n", "_", "f", "i", "r", "m", "w", "a", "r", "e", ".", "p", "y" >>

GenerateKeyFlag == << "-", "-", "g", "e", "n", "e", "r", "a", "t", "e", "-", "k", "e", "y" >>

\* an existing firmware image and a missing file
PathFw == << "f", "w", ".", "b", "i", "n" >>

PathMissing == << "n", "o", "f", "i", "l", "e", ".", "b", "i", "n" >>

InputPaths == { PathFw, PathMissing }

\* explicit output paths: the input file itself, or another file (here the
\* one the derived path names as well)
OutputPaths == { PathFw, DefaultOutputPath(PathFw) }

FsPaths == InputPaths \cup OutputPaths \cup { DefaultOutputPath(p) : p \in InputPaths }

\* firmware payloads: empty, and b"DeskBuddyFW"
PayloadEmpty == << >>

PayloadDesk == << 68, 101, 115, 107, 66, 117, 100, 100, 121, 70, 87 >>

Payloads == { PayloadEmpty, PayloadDesk }

\* content an output file may hold before the program runs
OldData == << 79, 76, 68 >>

\* "aBaB...": s and t alternating, n characters
Alternate(s, t, n) == SubSeq([i \in 1..n |-> IF i % 2 = 1 THEN s ELSE t], 1, n)

\* key strings given on the command line
KeyZero == Rep("0", 64)

KeyMixed == Alternate("a", "B", 64)

KeyShort == Rep("0", 63)

KeyLong == Rep("0", 65)

KeyJunk == << "z", "z" >>

KeyNonHex == << "g" >> \o Rep("0", 63)

KeyTrailingSpace == Alternate("a", "b", 62) \o << " ", VT >>

KeySplitPair == << "0", " ", "0" >> \o Rep("0", 61)

KeyInputs ==
  { KeyZero, KeyMixed, KeyShort, KeyLong, KeyJunk, KeyNonHex, KeyTrailingSpace,
    KeySplitPair }

\* what os.urandom(32) may return
RandomOutcomes == { Rep(0, 32), Rep(171, 32) }

\* hmac.new(key, msg, hashlib.sha256).digest() is evaluated once, for every
\* key the inputs above decode to and every content an input file can
\* hold, and looked up afterwards
HmacKeys ==
  { fromhex(k).bytes : k \in { kh \in KeyInputs : fromhex(kh).ok } } \cup RandomOutcomes

\* what an input file of at most MaxInputLen bytes can hold when a run
\* starts: a payload, or what a failed run left of one in its place
SignableData ==
  Payloads \cup { SubSeq(p, 1, IF n < Len(p) THEN n ELSE Len(p)) : p \in Payloads, n \in 0..MaxPartial }

HmacTable == { << k, m, hmac_digest(k, m) >> : k \in HmacKeys, m \in SignableData }

\* the table's entry for (hkey, msg)
HmacLookup(hkey, msg) == (CHOOSE e \in HmacTable : e[1] = hkey /\ e[2] = msg)[3]

\* ------------------------------------------------------------------------
\* State
\* ------------------------------------------------------------------------

VARIABLES
  fs,           \* the file system: path -> [exists, data]
  pc,           \* where the current run of the program stands
  mode,         \* what main dispatched to in this run: usage, generate, sign
  runs,         \* runs of the program started so far
  input_path,   \* sign_firmware's arguments and locals
  key_hex,
  output_path,
  key,
  firmware,
  signature,
  buffer,       \* bytes written to the open output file and not yet flushed
  exc,          \* the exception raised in this run, NoExc when none
  ret,          \* what sign_firmware or generate_key returned, None before
  exit_status,  \* the process exit status, -1 while running
  printed_key,  \* the last key a --generate-key run put on its standard
                \* output, << >> if none
  stdout,       \* the standard output this run was started with
  trace,        \* the steps sign_firmware has taken in this run, in order
  fs0,          \* the file system as it was when this run started
  ref           \* a successful sign_firmware call remembered for comparison

vars ==
  << fs, pc, mode, runs, input_path, key_hex, output_path, key, firmware, signature,
     buffer, exc, ret, exit_status, printed_key, stdout, trace, fs0, ref >>

\* the arguments of the call
args == << input_path, key_hex, output_path >>

\* the locals of sign_firmware
locals == << key, firmware, signature >>

NoFile == [exists |-> FALSE, data |-> << >>]

File(d) == [exists |-> TRUE, data |-> d]

NoExc == [type |-> "none", what |-> "", got |-> 0]

\* ValueError(f"Key must be 64 hex characters (32 bytes), got {len(key_hex)}")
KeyLengthError(n) ==
  [type |-> "ValueError", what |-> "Key must be 64 hex characters (32 bytes), got", got |-> n]

\* ValueError("Key must be valid hexadecimal")
KeyEncodingError == [type |-> "ValueError", what |-> "Key must be valid hexadecimal", got |-> 0]

\* an OSError raised by the operating system in the named operation
OSError(op) == [type |-> "OSError", what |-> op, got |-> 0]

NoRef == [set |-> FALSE, run |-> 0, payload |-> << >>, key_hex |-> << >>, envelope |-> << >>]

\* the length a valid key string must have
KeyHexLen == 64

Min(a, b) == IF a < b THEN a ELSE b

\* command lines: no argument, --generate-key, a lone input path, and
\* input path and key with or without an output path
ArgvInputs(keys) ==
  { << Prog >>, << Prog, GenerateKeyFlag >>, << Prog, PathFw >> }
    \cup { << Prog, i, k >> : i \in InputPaths, k \in keys }
    \cup { << Prog, PathFw, k, o >> : k \in keys, o \in OutputPaths }

\* the firmware image holds one of the payloads; the file the output goes to
\* by default is absent or holds old content
Init ==
  /\ \E p \in Payloads, o \in { NoFile, File(OldData) } :
       fs = [q \in FsPaths |->
               IF q = PathFw THEN File(p)
               ELSE IF q = DefaultOutputPath(PathFw) THEN o
               ELSE NoFile]
  /\ pc = "idle"
  /\ mode = "none"
  /\ runs = 0
  /\ input_path = << >>
  /\ key_hex = << >>
  /\ output_path = None
  /\ key = << >>
  /\ firmware = << >>
  /\ signature = << >>
  /\ buffer = << >>
  /\ exc = NoExc
  /\ ret = None
  /\ exit_status = -1
  /\ printed_key = << >>
  /\ stdout = "open"
  /\ trace = << >>
  /\ fs0 = fs
  /\ ref = NoRef

\* ------------------------------------------------------------------------
\* main (lines 64-90) and generate_key (lines 59-62)
\* ------------------------------------------------------------------------

\* what main does with argv before it calls anything (lines 65-84):
\* "usage" (exit 1), "generate" or "sign"
Dispatch(a) ==
  IF Len(a) < 2 THEN "usage"
  ELSE IF a[2] = GenerateKeyFlag THEN "generate"
  ELSE IF Len(a) < 3 THEN "usage"
  ELSE "sign"

\* the standard output a process is started with: a working one; none
\* (closed: sys.stdout is None and print does nothing); a block-buffered
\* one whose every write fails (/dev/full, a full disk), where print fills
\* the buffer and the failure shows when the interpreter exits; or an
\* unbuffered or line-buffered one that may fail to write, from the start
\* or from some print on (python -u on /dev/full, a pipe whose reader
\* left), where print raises OSError at the call
StdoutStates == { "open", "closed", "full", "unbuffered" }

\* what a print call on standard output so can do: return, or raise
PrintOutcomes(so) == IF so = "unbuffered" THEN { NoExc, OSError("print") } ELSE { NoExc }

\* text print returned for reaches the reader of standard output so
Delivers(so) == so \in { "open", "unbuffered" }

\* the exit status of the process: the one main ended with, unless text
\* print left in the buffer of sys.stdout cannot be flushed when the
\* interpreter exits, which makes it 120
FinalizeStatus(status, so, wrote) == IF so = "full" /\ wrote THEN 120 ELSE status

\* a new process starts with argv = a and standard output so (on an input
\* file of at most MaxInputLen bytes); one process runs at a time.  The
\* usage branches (lines 65-69, 77-80) print and sys.exit(1); a print that
\* raises there ends the process with status 1 as well
Main(a, so) ==
  /\ pc \in { "idle", "exited" }
  /\ (Dispatch(a) = "sign" /\ fs[a[2]].exists) => Len(fs[a[2]].data) <= MaxInputLen
  /\ runs' = runs + 1
  /\ fs0' = fs
  /\ trace' = << >>
  /\ \E e \in (IF Dispatch(a) = "usage" THEN PrintOutcomes(so) ELSE { NoExc }) : exc' = e
  /\ ret' = None
  /\ key' = << >>
  /\ firmware' = << >>
  /\ signature' = << >>
  /\ buffer' = << >>
  /\ mode' = Dispatch(a)
  /\ pc' = CASE Dispatch(a) = "usage" -> "exited"
             [] Dispatch(a) = "generate" -> "generate_key"
             [] Dispatch(a) = "sign" -> "validate_key"
  /\ stdout' = so
  /\ exit_status' = IF Dispatch(a) = "usage" THEN FinalizeStatus(1, so, TRUE) ELSE -1
  /\ input_path' = IF Dispatch(a) = "sign" THEN a[2] ELSE << >>
  /\ key_hex' = IF Dispatch(a) = "sign" THEN a[3] ELSE << >>
  /\ output_path' = IF Dispatch(a) = "sign" /\ Len(a) > 3 THEN Some(a[4]) ELSE None
  /\ UNCHANGED << fs, printed_key, ref >>

\* generate_key encoding one byte too few
GenerateKeyShort(r) == hex(Tail(r))

\* generate_key (lines 59-62): the hex form of the random bytes
generate_key(r) == hex(r)

\* main's --generate-key branch (lines 71-75)
GenerateKey ==
  /\ pc = "generate_key"
  /\ \/ \E r \in RandomOutcomes :
          \* os.urandom(32) returned r and generate_key the key
          /\ ret' = Some(generate_key(r))
          /\ \/ \* print(key) and the print after it return, sys.exit(0)
                /\ printed_key' = IF Delivers(stdout) THEN generate_key(r) ELSE printed_key
                /\ exit_status' = FinalizeStatus(0, stdout, TRUE)
                /\ exc' = NoExc
             \/ \* print at line 73 raises: no key is out, nothing catches it
                /\ OSError("print") \in PrintOutcomes(stdout)
                /\ printed_key' = printed_key
                /\ exit_status' = FinalizeStatus(1, stdout, FALSE)
                /\ exc' = OSError("print")
             \/ \* print at line 74 raises: the key is out already
                /\ OSError("print") \in PrintOutcomes(stdout)
                /\ printed_key' = generate_key(r)
                /\ exit_status' = FinalizeStatus(1, stdout, TRUE)
                /\ exc' = OSError("print")
     \/ \* os.urandom raised: nothing catches it and nothing was printed,
        \* the process ends with 1
        /\ ret' = None
        /\ printed_key' = printed_key
        /\ exit_status' = FinalizeStatus(1, stdout, FALSE)
        /\ exc' = OSError("urandom")
  /\ pc' = "exited"
  /\ UNCHANGED << fs, mode, runs, args, locals, buffer, stdout, trace, fs0, ref >>

\* ------------------------------------------------------------------------
\* sign_firmware (lines 24-57), one action per statement that can raise
\* ------------------------------------------------------------------------

\* KeyCheck with the two checks in the other order: decoding before length
KeyCheckDecodeFirst(kh) ==
  IF ~fromhex(kh).ok
  THEN [exc |-> KeyEncodingError, key |-> << >>, steps |-> << "hex_decode" >>]
  ELSE IF Len(kh) # KeyHexLen
  THEN [exc |-> KeyLengthError(Len(kh)), key |-> << >>, steps |-> << "hex_decode", "len_check" >>]
  ELSE [exc |-> NoExc, key |-> fromhex(kh).bytes, steps |-> << "hex_decode", "len_check" >>]

\* key validation (lines 26-32): the length check, then the decoding
KeyCheck(kh) ==
  IF Len(kh) # KeyHexLen
  THEN [exc |-> KeyLengthError(Len(kh)), key |-> << >>, steps |-> << "len_check" >>]
  ELSE IF ~fromhex(kh).ok
  THEN [exc |-> KeyEncodingError, key |-> << >>, steps |-> << "len_check", "hex_decode" >>]
  ELSE [exc |-> NoExc, key |-> fromhex(kh).bytes, steps |-> << "len_check", "hex_decode" >>]

ValidateKey ==
  /\ pc = "validate_key"
  /\ exc' = KeyCheck(key_hex).exc
  /\ key' = KeyCheck(key_hex).key
  /\ trace' = trace \o KeyCheck(key_hex).steps
  /\ pc' = IF KeyCheck(key_hex).exc = NoExc THEN "read_firmware" ELSE "sign_raised"
  /\ UNCHANGED << fs, mode, runs, args, firmware, signature, buffer, ret, exit_status, printed_key, stdout,
                  fs0, ref >>

\* lines 35-38: read the whole input file and print its size; or the file
\* is absent or cannot be opened or read (no permission, I/O error)
ReadFirmware ==
  /\ pc = "read_firmware"
  /\ \/ /\ fs[input_path].exists
        /\ firmware' = fs[input_path].data
        /\ trace' = Append(trace, "read")
        /\ \E e \in PrintOutcomes(stdout) :
             /\ exc' = e
             /\ pc' = IF e = NoExc THEN "compute_hmac" ELSE "sign_raised"
     \/ /\ exc' = OSError("open_input")
        /\ pc' = "sign_raised"
        /\ UNCHANGED << firmware, trace >>
  /\ UNCHANGED << fs, mode, runs, args, key, signature, buffer, ret, exit_status, printed_key, stdout,
                  fs0, ref >>

\* ComputeSignature finalising the tag before any firmware byte is fed
ComputeSignatureNoData(k, fw) == HmacLookup(k, << >>)

\* line 41: the tag over the decoded key and the whole firmware
ComputeSignature(k, fw) == HmacLookup(k, fw)

\* lines 45-47: the output path, derived from the input path when omitted
DeriveOutputPath(inp, outp) ==
  IF outp = None THEN Some(DefaultOutputPath(inp)) ELSE outp

\* lines 41-47: compute the tag, print it, settle the output path
ComputeHmac ==
  /\ pc = "compute_hmac"
  /\ signature' = ComputeSignature(key, firmware)
  /\ trace' = Append(trace, "hmac")
  /\ \E e \in PrintOutcomes(stdout) :
       /\ exc' = e
       /\ output_path' = IF e = NoExc THEN DeriveOutputPath(input_path, output_path)
                         ELSE output_path
       /\ pc' = IF e = NoExc THEN "open_output" ELSE "sign_raised"
  /\ UNCHANGED << fs, mode, runs, input_path, key_hex, key, firmware, buffer, ret,
                  exit_status, printed_key, stdout, fs0, ref >>

\* OpenForWrite in append mode ('ab'): what the file held stays
OpenForAppend(f) == File(f.data)

\* open(path, 'wb') on file f: it exists afterwards and is empty
OpenForWrite(f) == File(<< >>)

\* BufferedWrite that starts the buffer over on every write
BufferedWriteFromStart(b, data) == data

\* f.write(data) on the buffered writer open() returned: data joins the
\* pending bytes b (the writes here stay far below the buffer's size, so
\* nothing reaches the file before it is closed)
BufferedWrite(b, data) == b \o data

\* the flush when the file is closed: the pending bytes b follow what the
\* file f holds
Flush(f, b) == File(f.data \o b)

\* how many of total pending bytes, the first plen of them the payload, may
\* have reached the file when the flush fails (no space left, file size
\* limit, I/O error): none or the first bytes of the payload, the payload
\* without its tag, or all but the last bytes
PartialLengths(total, plen) ==
  { n \in (0..Min(MaxPartial, plen)) \cup { plen } \cup { total - k : k \in 1..MaxPartial } :
      0 <= n /\ n < total }

\* line 50: open the output file, which truncates it, unless the system
\* refuses (no permission, no such directory, ...)
OpenOutput ==
  /\ pc = "open_output"
  /\ \/ /\ fs' = [fs EXCEPT ![output_path[1]] = OpenForWrite(@)]
        /\ trace' = Append(trace, "open_output")
        /\ pc' = "write_firmware"
        /\ exc' = NoExc
     \/ /\ exc' = OSError("open_output")
        /\ pc' = "sign_raised"
        /\ UNCHANGED << fs, trace >>
  /\ buffer' = << >>
  /\ UNCHANGED << mode, runs, args, locals, ret, exit_status, printed_key, stdout, fs0, ref >>

\* line 51: f.write(firmware)
WriteFirmware ==
  /\ pc = "write_firmware"
  /\ buffer' = BufferedWrite(buffer, firmware)
  /\ trace' = Append(trace, "write_firmware")
  /\ pc' = "write_signature"
  /\ UNCHANGED << fs, mode, runs, args, locals, exc, ret, exit_status, printed_key, stdout, fs0, ref >>

\* line 52: f.write(signature)
WriteSignature ==
  /\ pc = "write_signature"
  /\ buffer' = BufferedWrite(buffer, signature)
  /\ trace' = Append(trace, "write_signature")
  /\ pc' = "close_output"
  /\ UNCHANGED << fs, mode, runs, args, locals, exc, ret, exit_status, printed_key, stdout, fs0, ref >>

\* lines 52-57: leaving the with block closes the file, which flushes the
\* pending bytes to it, the size is printed and the output path returned;
\* or the close raises: the flush failed with only part of the bytes in the
\* file, or every byte was flushed and closing the descriptor reported an
\* error (a deferred write error)
CloseAndReturn ==
  /\ pc = "close_output"
  /\ \/ /\ fs' = [fs EXCEPT ![output_path[1]] = Flush(@, buffer)]
        /\ \E e \in PrintOutcomes(stdout) :
             /\ exc' = e
             /\ ret' = IF e = NoExc THEN output_path ELSE ret
             /\ pc' = IF e = NoExc THEN "sign_returned" ELSE "sign_raised"
     \/ \E n \in PartialLengths(Len(buffer), Len(firmware)) \cup { Len(buffer) } :
          /\ fs' = [fs EXCEPT ![output_path[1]] = Flush(@, SubSeq(buffer, 1, n))]
          /\ exc' = OSError("close")
          /\ pc' = "sign_raised"
          /\ UNCHANGED ret
  /\ buffer' = << >>
  /\ UNCHANGED << mode, runs, args, locals, exit_status, printed_key, stdout, trace, fs0, ref >>

\* the status main ends with after the call (lines 86-90, and falling off
\* the end of main): 1 when sign_firmware raised e, 0 when it returned
ExitStatusAfterSign(e) == IF e = NoExc THEN 0 ELSE 1

\* lines 86-90: main after sign_firmware returned or raised (the print in
\* the handler may raise in its turn: the status is 1 either way)
MainAfterSign ==
  /\ pc \in { "sign_returned", "sign_raised" }
  /\ exit_status' = FinalizeStatus(ExitStatusAfterSign(exc), stdout, TRUE)
  /\ pc' = "exited"
  /\ UNCHANGED << fs, mode, runs, args, locals, buffer, exc, ret, printed_key, stdout, trace, fs0,
                  ref >>

\* ------------------------------------------------------------------------
\* Specification
\* ------------------------------------------------------------------------

\* the key strings a command line may carry: the given ones and a printed one
AvailableKeys == KeyInputs \cup (IF printed_key = << >> THEN {} ELSE { printed_key })

Next ==
  \/ \E a \in ArgvInputs(AvailableKeys), so \in StdoutStates : runs < MaxRuns /\ Main(a, so)
  \/ GenerateKey
  \/ ValidateKey
  \/ ReadFirmware
  \/ ComputeHmac
  \/ OpenOutput
  \/ WriteFirmware
  \/ WriteSignature
  \/ CloseAndReturn
  \/ MainAfterSign

Spec == Init /\ [][Next]_vars

\* ------------------------------------------------------------------------
\* Sequences of calls: more runs, on fewer command lines
\* ------------------------------------------------------------------------

\* key strings of the sequences: two valid ones, one that is rejected, and
\* a printed one
SeqKeys == { KeyZero, KeyMixed, KeyJunk } \cup (IF printed_key = << >> THEN {} ELSE { printed_key })

\* command lines of the sequences: key generation, and signing the firmware
\* image to the default path or onto itself
SeqArgv(keys) ==
  { << Prog, GenerateKeyFlag >> }
    \cup { << Prog, PathFw, k >> : k \in keys }
    \cup { << Prog, PathFw, k, PathFw >> : k \in keys }

\* an observer remembers the sign_firmware call that has just returned (its
\* payload, key string and the envelope it wrote) if it remembers none
Remember ==
  /\ pc = "sign_returned"
  /\ ~ref.set
  /\ ref' = [set |-> TRUE, run |-> runs, payload |-> firmware, key_hex |-> key_hex,
             envelope |-> fs[ret[1]].data]
  /\ UNCHANGED << fs, pc, mode, runs, args, locals, buffer, exc, ret, exit_status, printed_key,
                  stdout, trace, fs0 >>

NextSeq ==
  \/ \E a \in SeqArgv(SeqKeys) : runs < MaxSeqRuns /\ Main(a, "open")
  \/ GenerateKey
  \/ ValidateKey
  \/ ReadFirmware
  \/ ComputeHmac
  \/ OpenOutput
  \/ WriteFirmware
  \/ WriteSignature
  \/ CloseAndReturn
  \/ MainAfterSign
  \/ Remember

SpecSeq == Init /\ [][NextSeq]_vars

\* ------------------------------------------------------------------------
\* The verifier of the protocol (spec 4.3); the repository has no verify
\* ------------------------------------------------------------------------

\* the key validation of spec 4.2: exactly 64 characters, all hex digits
SpecKeyValid(kh) == Len(kh) = KeyHexLen /\ \A i \in 1..Len(kh) : IsHexDigit(kh[i])

Verdict(r, p) == [result |-> r, payload |-> p]

\* verify(envelope, key_hex): split off the last 32 bytes, recompute the tag
\* over the rest, accept and return the rest iff the tags are equal
verify(envelope, kh) ==
  IF ~SpecKeyValid(kh) THEN Verdict("InvalidKey", << >>)
  ELSE IF Len(envelope) < DigestSize THEN Verdict("EnvelopeTooShort", << >>)
  ELSE IF HmacLookup(fromhex(kh).bytes, SubSeq(envelope, 1, Len(envelope) - DigestSize))
            = SubSeq(envelope, Len(envelope) - DigestSize + 1, Len(envelope))
  THEN Verdict("accept", SubSeq(envelope, 1, Len(envelope) - DigestSize))
  ELSE Verdict("SignatureInvalid", << >>)

\* ------------------------------------------------------------------------
\* Properties
\* ------------------------------------------------------------------------

\* sign_firmware was called in this run and has returned or raised
CallEnded == mode = "sign" /\ pc \in { "sign_returned", "sign_raised", "exited" }

Returned == CallEnded /\ ret # None

Raised == CallEnded /\ exc # NoExc

\* the key validation of this run's sign_firmware call is over
Validated == mode = "sign" /\ pc # "validate_key"

\* the input file's content when the run started, and what the returned
\* output path holds now
Payload == fs0[input_path].data

Envelope == fs[ret[1]].data

Took(step) == \E i \in 1..Len(trace) : trace[i] = step

\* HMAC-SHA256 of b"DeskBuddyFW" and of b"" under the key of 32 zero bytes,
\* as published test output (spec 8, property 7)
TagZeroKeyDesk ==
  << 254, 248, 44, 135, 159, 56, 38, 44, 146, 182, 103, 106, 198, 254, 98, 29,
     217, 87, 139, 111, 119, 21, 134, 74, 21, 72, 108, 34, 45, 153, 124, 186 >>

TagZeroKeyEmpty ==
  << 182, 19, 103, 154, 8, 20, 217, 236, 119, 47, 149, 215, 120, 195, 95, 197,
     255, 22, 151, 196, 147, 113, 86, 83, 198, 199, 18, 20, 66, 146, 197, 173 >>

\* C1: after a successful sign_firmware call the output file is the payload
\* followed by exactly 32 tag bytes: its length is len(P) + 32, its first
\* len(P) bytes are P, its last 32 bytes are HMAC-SHA256(key, P) over the
\* whole of P (pinned to the known tags for the all-zero key)
C1_EnvelopeIsPayloadThenTag ==
  Returned =>
    /\ Len(Envelope) = Len(Payload) + DigestSize
    /\ SubSeq(Envelope, 1, Len(Payload)) = Payload
    /\ SubSeq(Envelope, Len(Payload) + 1, Len(Envelope))
         = HmacLookup(fromhex(key_hex).bytes, Payload)
    /\ (key_hex = KeyZero /\ Payload = PayloadDesk)
         => SubSeq(Envelope, Len(Payload) + 1, Len(Envelope)) = TagZeroKeyDesk
    /\ (key_hex = KeyZero /\ Payload = PayloadEmpty) => Envelope = TagZeroKeyEmpty

\* a call on the empty payload under the all-zero key has returned
C1_Witness == Returned /\ Payload = PayloadEmpty /\ key_hex = KeyZero /\ Len(Envelope) = DigestSize

\* C2: a key string whose length is not 64 makes sign_firmware raise the
\* key-length error carrying that length, as its first step: nothing was
\* decoded, read, computed, opened or written
C2_KeyLengthCheckedFirst ==
  (Validated /\ Len(key_hex) # KeyHexLen) =>
    /\ pc \in { "sign_raised", "exited" }
    /\ exc = KeyLengthError(Len(key_hex))
    /\ trace = << "len_check" >>
    /\ key = << >> /\ firmware = << >> /\ signature = << >>
    /\ ret = None
    /\ fs = fs0

\* the two-character non-hex key was rejected for its length
C2_Witness == pc = "sign_raised" /\ key_hex = KeyJunk /\ exc = KeyLengthError(2)

\* C3: a 64-character key string with a character that is no hex digit
\* makes sign_firmware raise the key-encoding error; no tag is computed and
\* nothing is written
C3_NonHexKeyRejected ==
  (Validated /\ Len(key_hex) = KeyHexLen /\ \E i \in 1..Len(key_hex) : ~IsHexDigit(key_hex[i])) =>
    /\ pc \in { "sign_raised", "exited" }
    /\ exc = KeyEncodingError
    /\ ~Took("hmac")
    /\ fs = fs0

\* C4: whenever the HMAC has been computed, the decoded key is 32 bytes long
C4_HmacKeyIs32Bytes == (mode = "sign" /\ Took("hmac")) => Len(key) = DigestSize

\* C5: after a sign_firmware call that raised, every file holds what it held
\* before the call or the complete envelope payload || tag
C5_NoPartialFile ==
  Raised =>
    \A p \in FsPaths :
      \/ fs[p] = fs0[p]
      \/ Took("hmac") /\ fs[p] = File(firmware \o signature)

\* C6: after a sign_firmware call the input file holds what it held before
C6_InputFileUnchanged == CallEnded => fs[input_path] = fs0[input_path]

\* C7: for a valid key (64 hex digits, 32 bytes), the protocol's verifier
\* accepts the envelope a successful sign_firmware call wrote and returns
\* exactly the payload
C7_RoundTrip ==
  (Returned /\ SpecKeyValid(key_hex)) => verify(Envelope, key_hex) = Verdict("accept", Payload)

\* the non-empty payload was signed under the mixed-case key and verifies
C7_Witness ==
  /\ Returned /\ key_hex = KeyMixed /\ Payload = PayloadDesk
  /\ verify(Envelope, key_hex).result = "accept"

\* C8: a key generate_key returns is 64 lowercase hex digits decoding to
\* exactly 32 bytes, and sign_firmware given it raises neither key error;
\* when the random source fails, the failure ends the run and no key is
\* returned
C8_GeneratedKeyUsable ==
  /\ (mode = "generate" /\ pc = "exited" /\ ret # None) =>
       /\ Len(ret[1]) = KeyHexLen
       /\ \A i \in 1..Len(ret[1]) : \E j \in 1..16 : HexLower[j] = ret[1][i]
       /\ fromhex(ret[1]).ok
       /\ Len(fromhex(ret[1]).bytes) = DigestSize
  /\ (mode = "generate" /\ pc = "exited" /\ exc = OSError("urandom")) =>
       (ret = None /\ exit_status # 0)
  /\ (Validated /\ printed_key # << >> /\ key_hex = printed_key) =>
       (exc # KeyLengthError(Len(key_hex)) /\ exc # KeyEncodingError)

\* a generated key that is none of the given key strings signed a payload
C8_Witness == Returned /\ key_hex = printed_key /\ key_hex \notin KeyInputs

\* C9: a successful call with the same payload bytes and the same key string
\* as a remembered earlier call wrote a byte-identical envelope
C9_Deterministic ==
  (Returned /\ ref.set /\ ref.payload = Payload /\ ref.key_hex = key_hex) =>
    Envelope = ref.envelope

\* a successful call on the same payload and key as the remembered one,
\* with another run of the program between the two
C9_Witness ==
  /\ Returned /\ ref.set /\ ref.run + 1 < runs
  /\ ref.payload = Payload /\ ref.key_hex = key_hex
  /\ Len(Payload) > 0

\* the key this --generate-key run generated is on its standard output
KeyPrinted == Delivers(stdout) /\ printed_key = ret[1]

\* C10: the process exits with a non-zero status after the usage message
\* and after every exception, and with status 0 only after a key was
\* generated and printed or sign_firmware returned
C10_ExitStatus ==
  pc = "exited" =>
    /\ (mode = "usage" \/ exc # NoExc) => exit_status # 0
    /\ exit_status = 0 =>
         \/ mode = "generate" /\ ret # None /\ KeyPrinted
         \/ mode = "sign" /\ ret # None /\ exc = NoExc

====
